---------------------------- MODULE Spec2Model ----------------------------
(***************************************************************************)
(* init_tree: InitTree / InitializedTree (src/src/lib.rs).                 *)
(*                                                                         *)
(* A "program" is a set of Init implementations for the types 1..NTypes:   *)
(* blanket impls for Default types, impl_init! expansions, and hand        *)
(* written impls built with TypeInitDef::new.  A tree is built with add /  *)
(* enable_caching / load_cache, consumed by init (sort, dedup, cache       *)
(* replay, fixed-point sweep), and the InitializedTree is then drained     *)
(* with take / take_by_type_id / take_all / take_cache.                    *)
(***************************************************************************)
EXTENDS Naturals, Integers, Sequences, FiniteSets, TLC

\* ------------------------------------------------------------------ bounds
NTypes == 3        \* types of a program
MaxEdges == 3      \* macro arguments of a program, all types together
MaxAdds == 2       \* add::<T>() calls on one tree
MaxCacheLen == 2   \* entries of a cache that was not captured from a run
MaxTakes == 2      \* take / take_by_type_id calls on one InitializedTree
MaxShortLen == 1   \* entries of a cache loaded where load_cache calls repeat
MaxRetryLen == 3   \* entries of a cache that names a slot again
MaxRetrySlot == 1  \* largest slot of such a cache
DepthWindow == 3   \* call depths below the ceiling at which a collection starts

\* internal::MAX_TREE_DEPTH
MAX_TREE_DEPTH == 500

Types == 1..NTypes
\* Option<T>: None is the empty sequence, Some(v) the sequence of v alone
None == <<>>
Some(v) == <<v>>
NoPanic == [kind |-> "none", names |-> <<>>]

\* --------------------------------------------------------------- programs
\* kind of an Init impl:
\*   "default"   impl<T: Default> Init for T
\*   "macro"     impl_init!(T; (args...) { ... })
\*   "never"     hand written, as the macro's but init always returns None
\*   "nocollect" hand written, as the macro's but deep_deps_list does nothing
\*   "selfdef"   hand written, as the macro's but self_def() is built with
\*               TypeInitDef::new around an init function of its own
MacroKinds == {"macro", "never", "nocollect", "selfdef"}
ManualKinds == {"never", "nocollect", "selfdef"}

RECURSIVE SeqsUpTo(_, _)
SeqsUpTo(S, n) ==
  IF n = 0 THEN {<<>>}
  ELSE LET shorter == SeqsUpTo(S, n - 1)
       IN shorter \cup {Append(s, x) : s \in {q \in shorter : Len(q) = n - 1}, x \in S}

RECURSIVE SumLen(_, _)
SumLen(f, S) ==
  IF S = {} THEN 0
  ELSE LET x == CHOOSE y \in S : TRUE IN Len(f[x]) + SumLen(f, S \ {x})

ArgLists == SeqsUpTo(Types, MaxEdges)

\* the programs whose impls are all blanket or impl_init! impls
MacroPrograms ==
  { [T \in Types |-> [kind |-> IF a[T] = <<>> THEN "default" ELSE "macro", args |-> a[T]]] :
      a \in {f \in [Types -> ArgLists] : SumLen(f, Types) <= MaxEdges} }

\* the same, where a type without arguments is a Default type or an
\* impl_init!(T; () { ... }) type
DepthPrograms ==
  { [T \in Types |-> [kind |-> IF a[T] = <<>> /\ T \in D THEN "default" ELSE "macro",
                       args |-> a[T]]] :
      a \in {f \in [Types -> ArgLists] : SumLen(f, Types) <= MaxEdges}, D \in SUBSET Types }

\* the programs with exactly one hand written impl
ManualPrograms ==
  { [p EXCEPT ![T].kind = k] : p \in MacroPrograms, T \in Types, k \in ManualKinds }

VARIABLES
  prog,               \* the Init impls (fixed)
  split,              \* the build: TRUE when every crate has its own copy of TypeId::of::<T>
  pc,                 \* "tree" | "replay" | "cycle" | "done" | "consumed" | "panic" | "collected"
  uninitialized,      \* InitTree.uninitialized
  cache,              \* InitTree.cache, then InitializedTree.cache: None or a sequence
  initialized,        \* init's HashMap<TypeId, RefCell<Box<dyn Any>>>, then InitializedTree.tree
  cache_was_correct,  \* init's local, then InitializedTree.cache_was_correct
  loop,               \* init's loop locals
  panic,              \* the panic that ended the run
  ret,                \* what the last call returned
  hist                \* history: what the claims need to remember of the past

vars == <<prog, split, pc, uninitialized, cache, initialized, cache_was_correct,
          loop, panic, ret, hist>>

\* ------------------------------------------------------------ descriptors
\* TypeInitDef.  id is a function pointer: its address is modelled as
\* <<type, site>>, site being the crate whose copy of TypeId::of::<T> it is.
\* deps and init are the type whose Init::deps_list / Init::init they point to
\* (init: with "custom" for a hand written self_def's own function).
TypeNames == [T \in Types |-> <<"T1", "T2", "T3", "T4", "T5">>[T]]

TypeInitDef(T, site, initfn, name) ==
  [id |-> <<T, IF split THEN site ELSE 0>>, deps |-> T, init |-> initfn, name |-> name]

\* (t.id)(): the TypeId the function returns
TypeIdOf(d) == d.id[1]

\* Init::self_def
self_def(T) ==
  CASE prog[T].kind = "default" -> TypeInitDef(T, 0, <<T, "trait">>, "<Unknown Type>")
    [] prog[T].kind = "selfdef" -> TypeInitDef(T, T, <<T, "custom">>, TypeNames[T])
    [] OTHER -> TypeInitDef(T, T, <<T, "trait">>, TypeNames[T])

\* Init::deps_list: one TypeInitDef per macro argument, made in T's crate
deps_list(T) ==
  [j \in 1..Len(prog[T].args) |->
     TypeInitDef(prog[T].args[j], T, <<prog[T].args[j], "trait">>, TypeNames[prog[T].args[j]])]

\* -------------------------------------------------------- deep_deps_list
\* The calls deep_deps_list makes: T calls each of its arguments' deep_deps_list.
Collects(T) == prog[T].kind \in {"macro", "never", "selfdef"}
Checks(T) == prog[T].kind \in MacroKinds \ {"nocollect"}
CallEdges == {e \in Types \X Types : Collects(e[1]) /\ \E j \in 1..Len(prog[e[1]].args) : prog[e[1]].args[j] = e[2]}

\* (built pair by pair, so that the result is a set of pairs and not a predicate)
Compose(R, S) ==
  UNION {{<<a, c>> : c \in {x \in Types : \E m \in Types : <<a, m>> \in R /\ <<m, x>> \in S}} :
           a \in Types}

\* pairs joined by a chain of exactly k nested calls (by repeated squaring; the
\* half is bound once so that it is evaluated once)
RECURSIVE Calls(_)
Calls(k) ==
  IF k = 0 THEN {<<T, T>> : T \in Types}
  ELSE IF k % 2 = 0
  THEN CHOOSE r \in {Compose(h, h) : h \in {Calls(k \div 2)}} : TRUE
  ELSE CHOOSE r \in {Compose(h, CallEdges) : h \in {Calls(k - 1)}} : TRUE

\* mutant: the ceiling is one call lower
TooDeep_one_lower(T, call_depth) ==
  IF call_depth + 1 >= MAX_TREE_DEPTH THEN Checks(T)
  ELSE \E U \in Types : Checks(U) /\ <<T, U>> \in Calls(MAX_TREE_DEPTH - call_depth - 1)

\* deep_deps_list(T, _, call_depth) reaches the panic of line 307-312: some chain
\* of nested calls from T arrives at call depth MAX_TREE_DEPTH in a type that
\* makes the check.  (The nested calls themselves are unfolded by deep_deps_list
\* only when no chain gets there.)
TooDeep(T, call_depth) ==
  IF call_depth >= MAX_TREE_DEPTH THEN Checks(T)
  ELSE \E U \in Types : Checks(U) /\ <<T, U>> \in Calls(MAX_TREE_DEPTH - call_depth)

\* mutant: the direct dependencies only, no nested calls
deep_deps_list_shallow(T, t, call_depth) ==
  IF Collects(T) THEN t \o deps_list(T) ELSE t

RECURSIVE deep_deps_list(_, _, _), DeepArgs(_, _, _, _)
DeepArgs(T, j, t, call_depth) ==
  IF j > Len(prog[T].args) THEN t
  ELSE DeepArgs(T, j + 1, deep_deps_list(prog[T].args[j], t, call_depth + 1), call_depth)

\* Init::deep_deps_list when it does not panic: t extended
deep_deps_list(T, t, call_depth) ==
  IF Collects(T) THEN DeepArgs(T, 1, t \o deps_list(T), call_depth) ELSE t

\* ---------------------------------------------------------- sort and dedup
AddrLess(a, b) == a[1] < b[1] \/ (a[1] = b[1] /\ a[2] < b[2])

\* the key of `sort_by_key(|t| t.id)` and `dedup_by_key(|t| t.id)`: the pointer
Key(d) == d.id

RECURSIVE Insert(_, _)
Insert(s, d) ==
  IF s = <<>> THEN <<d>>
  ELSE IF AddrLess(Key(d), Key(s[Len(s)])) THEN Append(Insert(SubSeq(s, 1, Len(s) - 1), d), s[Len(s)])
  ELSE Append(s, d)

\* mutant: the sort is missing
sort_by_key_missing(s) == s

\* slice::sort_by_key: stable
RECURSIVE sort_by_key(_)
sort_by_key(s) ==
  IF s = <<>> THEN <<>> ELSE Insert(sort_by_key(SubSeq(s, 1, Len(s) - 1)), s[Len(s)])

\* Vec::dedup_by_key: of consecutive elements with equal keys the first stays
RECURSIVE dedup_by_key(_)
dedup_by_key(s) ==
  IF Len(s) <= 1 THEN s
  ELSE LET front == dedup_by_key(SubSeq(s, 1, Len(s) - 1))
       IN IF Key(front[Len(front)]) = Key(s[Len(s)]) THEN front ELSE Append(front, s[Len(s)])

\* Vec::swap_remove(i), i zero-based and in range: the rest, last element in slot i
swap_remove(v, i) ==
  IF i = Len(v) - 1 THEN SubSeq(v, 1, Len(v) - 1)
  ELSE [SubSeq(v, 1, Len(v) - 1) EXCEPT ![i + 1] = v[Len(v)]]

\* ------------------------------------------------------------- instances
\* The HashMap: a function whose domain is the set of keys.
EmptyMap == [x \in {} |-> 0]
MapInsert(h, k, v) == [x \in DOMAIN h \cup {k} |-> IF x = k THEN v ELSE h[x]]
MapRemove(h, k) == [x \in DOMAIN h \ {k} |-> h[x]]

\* An instance in its RefCell: which init function built it, what it read from
\* each argument when it was built, how often a dependent's block has written to
\* it, and the RefCell's borrow flag (RefCell::new: not borrowed).
Instance(initfn, seen) == [by |-> initfn, seen |-> seen, n |-> 0, borrowed |-> FALSE]

\* RefCell::borrow_mut on a cell that is not borrowed: the flag is set
borrow_mut(h, x) == [h EXCEPT ![x].borrowed = TRUE]

\* mutant: the RefMuts are leaked, the flags stay set
drop_handles_leaked(h, held) == h

\* the RefMuts of `held` go out of scope: the flags are cleared
drop_handles(h, held) ==
  [x \in DOMAIN h |-> IF x \in held THEN [h[x] EXCEPT !.borrowed = FALSE] ELSE h[x]]

NoneResult(h) == [r |-> "None", h |-> h]
PanicResult(h) == [r |-> "panic", h |-> h]
SomeResult(v, h) == [r |-> "Some", value |-> v, h |-> h]

\* mutant: the `?` of `initialized.get(..)?` is missing, an absent argument
\* reads as a fresh one
macro_init_unchecked(T, initfn, h) ==
  LET args == prog[T].args
      borrowed(j) == \E e \in 1..(j - 1) : args[e] = args[j]
  IN IF \E j \in 1..Len(args) : borrowed(j)
     THEN PanicResult(h)
     ELSE SomeResult(Instance(initfn, [j \in 1..Len(args) |->
                                         IF args[j] \in DOMAIN h THEN h[args[j]].n ELSE 0]),
                     [x \in DOMAIN h |->
                        IF \E j \in 1..Len(args) : args[j] = x
                        THEN [h[x] EXCEPT !.n = @ + 1] ELSE h[x]])

\* impl_init!'s init, lines 279-282: for each argument in turn
\* `initialized.get(..)?`, which returns None when the key is absent, then
\* `.borrow_mut()`, which panics when the cell is borrowed.  held: the cells
\* whose RefMut this call holds.
RECURSIVE Acquire(_, _, _, _)
Acquire(args, j, h, held) ==
  IF j > Len(args) THEN [r |-> "Some", h |-> h, held |-> held]
  ELSE IF args[j] \notin DOMAIN h THEN [r |-> "None", h |-> h, held |-> held]
  ELSE IF h[args[j]].borrowed THEN [r |-> "panic", h |-> h, held |-> held]
  ELSE Acquire(args, j + 1, borrow_mut(h, args[j]), held \cup {args[j]})

\* impl_init!'s init: the arguments are acquired, then the block runs, which here
\* reads every argument's counter and adds one to it; the RefMuts are dropped
\* when init returns.
macro_init(T, initfn, h) ==
  LET args == prog[T].args
      a == Acquire(args, 1, h, {})
  IN CASE a.r = "None" -> NoneResult(drop_handles(a.h, a.held))
       [] a.r = "panic" -> PanicResult(a.h)
       [] OTHER ->
            SomeResult(Instance(initfn, [j \in 1..Len(args) |-> a.h[args[j]].n]),
                       drop_handles([x \in DOMAIN a.h |->
                                       IF x \in a.held THEN [a.h[x] EXCEPT !.n = @ + 1] ELSE a.h[x]],
                                    a.held))

\* (d.init)(&mut initialized)
CallInit(d, h) ==
  LET T == d.init[1] IN
  CASE d.init[2] = "custom" -> macro_init(T, d.init, h)
    [] prog[T].kind = "default" -> SomeResult(Instance(d.init, <<>>), h)
    [] prog[T].kind = "never" -> NoneResult(h)
    [] OTHER -> macro_init(T, d.init, h)

\* `(d.deps)().iter().all(|t| initialized.contains_key(&(t.id)()))`
DepsReady(d, h) ==
  \A j \in 1..Len(deps_list(d.deps)) : TypeIdOf(deps_list(d.deps)[j]) \in DOMAIN h

\* internal::get_type_names (the names, not yet joined)
get_type_names(defs) == [j \in 1..Len(defs) |-> defs[j].name]

\* --------------------------------------------------------------- history
NoLoop == [k |-> 0, new_cache |-> <<>>, i |-> 0, initialized_count |-> 0, first |-> TRUE]
\* adds: the add calls; registered: uninitialized as init found it; pending: the
\* same sorted and deduplicated; built: the constructions; handed: the takes;
\* result: the map init returned; loaded: where the cache came from; taken: what
\* take_cache returned; prev: the tree built before this one; setup: the last
\* enable_caching / load_cache call on the InitTree that init has not consumed
\* yet; sweeps: the init_cycle calls that returned; failed: the turns of the
\* replay loop that constructed nothing
NoHist == [adds |-> <<>>, registered |-> <<>>, pending |-> <<>>, built |-> <<>>,
           handed |-> <<>>, result |-> None, loaded |-> "no", taken |-> None, prev |-> None,
           setup |-> None, sweeps |-> 0, failed |-> 0]

\* one construction: its descriptor, the loop that made it, whether the key was
\* new to the map
Built(d, via, h) ==
  [id |-> d.id, init |-> d.init, name |-> d.name, via |-> via,
   fresh |-> TypeIdOf(d) \notin DOMAIN h]

\* ------------------------------------------------------------ InitTree
\* InitTree::new()
NewTree(p, s) ==
  /\ prog = p
  /\ split = s
  /\ pc = "tree"
  /\ uninitialized = <<>>
  /\ cache = None
  /\ initialized = EmptyMap
  /\ cache_was_correct = FALSE
  /\ loop = NoLoop
  /\ panic = NoPanic
  /\ ret = None
  /\ hist = NoHist

\* mutant: enable_caching(true) installs the default cache over a held one
enable_caching_reset(enabled) ==
  /\ pc = "tree"
  /\ cache' = IF enabled THEN Some(<<>>) ELSE None
  /\ ret' = None
  /\ hist' = [hist EXCEPT !.loaded = IF cache' = None THEN "no" ELSE "default",
                          !.setup = Some([op |-> "enable_caching", enabled |-> enabled, c |-> <<>>])]
  /\ UNCHANGED <<prog, split, pc, uninitialized, initialized, cache_was_correct, loop, panic>>

\* InitTree::enable_caching
enable_caching(enabled) ==
  /\ pc = "tree"
  /\ cache' = IF enabled THEN (IF cache = None THEN Some(<<>>) ELSE cache) ELSE None
  /\ ret' = None
  /\ hist' = [hist EXCEPT !.loaded = IF cache' = None THEN "no"
                                     ELSE IF cache = None THEN "default" ELSE @,
                          !.setup = Some([op |-> "enable_caching", enabled |-> enabled, c |-> <<>>])]
  /\ UNCHANGED <<prog, split, pc, uninitialized, initialized, cache_was_correct, loop, panic>>

\* InitTree::load_cache
load_cache(c, from) ==
  /\ pc = "tree"
  /\ cache' = Some(c)
  /\ ret' = cache
  /\ hist' = [hist EXCEPT !.loaded = from,
                          !.setup = Some([op |-> "load_cache", enabled |-> TRUE, c |-> c])]
  /\ UNCHANGED <<prog, split, pc, uninitialized, initialized, cache_was_correct, loop, panic>>

\* mutant: at the depth ceiling deep_deps_list returns instead of panicking
add_no_ceiling(T) ==
  /\ pc = "tree"
  /\ Len(hist.adds) < MaxAdds
  /\ hist' = [hist EXCEPT !.adds = Append(@, T)]
  /\ ret' = None
  /\ uninitialized' = IF TooDeep(T, 0) THEN Append(uninitialized, self_def(T)) \o deps_list(T)
                       ELSE deep_deps_list(T, Append(uninitialized, self_def(T)), 0)
  /\ UNCHANGED <<prog, split, pc, panic, cache, initialized, cache_was_correct, loop>>

\* InitTree::add::<T>()
add(T) ==
  /\ pc = "tree"
  /\ Len(hist.adds) < MaxAdds
  /\ hist' = [hist EXCEPT !.adds = Append(@, T)]
  /\ ret' = None
  /\ IF TooDeep(T, 0)
     THEN /\ pc' = "panic"
          /\ panic' = [kind |-> "DependencyTooDeep", names |-> <<>>]
          /\ uninitialized' = Append(uninitialized, self_def(T))
     ELSE /\ uninitialized' = deep_deps_list(T, Append(uninitialized, self_def(T)), 0)
          /\ UNCHANGED <<pc, panic>>
  /\ UNCHANGED <<prog, split, cache, initialized, cache_was_correct, loop>>

\* the call depths near the ceiling
Depths == (MAX_TREE_DEPTH - DepthWindow)..(MAX_TREE_DEPTH + 1)

\* <T as Init>::deep_deps_list(&mut t, call_depth) on an empty Vec t
collect(T, call_depth) ==
  /\ pc = "tree"
  /\ ret' = Some(<<T, call_depth>>)
  /\ IF TooDeep(T, call_depth)
     THEN /\ pc' = "panic"
          /\ panic' = [kind |-> "DependencyTooDeep", names |-> <<>>]
          /\ UNCHANGED uninitialized
     ELSE /\ pc' = "collected"
          /\ uninitialized' = deep_deps_list(T, uninitialized, call_depth)
          /\ UNCHANGED panic
  /\ UNCHANGED <<prog, split, cache, initialized, cache_was_correct, loop, hist>>

StartCycle(first) == [NoLoop EXCEPT !.first = first]

\* InitTree::init, lines 91-104: sort, dedup, cache_was_correct; then the replay
\* loop when a cache is held, the first init_cycle otherwise
init_begin ==
  /\ pc = "tree"
  /\ LET pending == dedup_by_key(sort_by_key(uninitialized)) IN
       /\ uninitialized' = pending
       /\ hist' = [hist EXCEPT !.registered = uninitialized, !.pending = pending,
                               !.setup = None]
  /\ initialized' = EmptyMap
  /\ cache_was_correct' = (cache # None)
  /\ pc' = IF cache # None THEN "replay" ELSE "cycle"
  /\ loop' = [StartCycle(TRUE) EXCEPT !.k = 1]
  /\ ret' = None
  /\ UNCHANGED <<prog, split, cache, panic>>

\* mutant: the descriptor is pushed back without the swap
undo_swap_remove_push_only(rest, i, new_init) == Append(rest, new_init)

\* the replay loop, lines 111-116: "undo the swap_remove".  rest is the Vec
\* after swap_remove(i), new_init the descriptor it took out.
undo_swap_remove(rest, i, new_init) ==
  IF Len(rest) > i
  THEN Append([rest EXCEPT ![i + 1] = new_init], rest[i + 1])
  ELSE Append(rest, new_init)

\* one turn of `for i in cache.iter()`, lines 105-117
replay_step ==
  /\ pc = "replay"
  /\ loop.k <= Len(cache[1])
  /\ LET i == cache[1][loop.k] IN
     IF i >= Len(uninitialized)
     THEN \* swap_remove panics: index out of bounds
          /\ pc' = "panic"
          /\ panic' = [kind |-> "IndexOutOfBounds", names |-> <<>>]
          /\ UNCHANGED <<uninitialized, initialized, loop, hist>>
     ELSE LET new_init == uninitialized[i + 1]
              rest == swap_remove(uninitialized, i)
              r == CallInit(new_init, initialized)
          IN CASE r.r = "Some" ->
                    /\ initialized' = MapInsert(r.h, TypeIdOf(new_init), r.value)
                    /\ uninitialized' = rest
                    /\ loop' = [loop EXCEPT !.k = @ + 1, !.new_cache = Append(@, i)]
                    /\ hist' = [hist EXCEPT !.built = Append(@, Built(new_init, "replay", initialized))]
                    /\ UNCHANGED <<pc, panic>>
               [] r.r = "None" ->
                    /\ uninitialized' = undo_swap_remove(rest, i, new_init)
                    /\ loop' = [loop EXCEPT !.k = @ + 1]
                    /\ hist' = [hist EXCEPT !.failed = @ + 1]
                    /\ UNCHANGED <<initialized, pc, panic>>
               [] OTHER ->
                    /\ pc' = "panic"
                    /\ panic' = [kind |-> "BorrowMutError", names |-> <<>>]
                    /\ UNCHANGED <<uninitialized, initialized, loop, hist>>
  /\ UNCHANGED <<prog, split, cache, cache_was_correct, ret>>

\* mutant: `*cache = new_cache` is missing, the loaded cache stays
replay_end_cache_kept ==
  /\ pc = "replay"
  /\ loop.k > Len(cache[1])
  /\ cache' = cache
  /\ pc' = "cycle"
  /\ loop' = StartCycle(TRUE)
  /\ UNCHANGED <<prog, split, uninitialized, initialized, cache_was_correct, panic, ret, hist>>

\* the end of the replay loop, line 118: `*cache = new_cache`
replay_end ==
  /\ pc = "replay"
  /\ loop.k > Len(cache[1])
  /\ cache' = Some(loop.new_cache)
  /\ pc' = "cycle"
  /\ loop' = StartCycle(TRUE)
  /\ UNCHANGED <<prog, split, uninitialized, initialized, cache_was_correct, panic, ret, hist>>

\* mutant: the slot is pushed one-based
cache_push_one_based(c, i) == IF c # None THEN Some(Append(c[1], i + 1)) ELSE c

\* init_cycle, lines 160-168: `cache.push(i)` when a cache is held
cache_push(c, i) == IF c # None THEN Some(Append(c[1], i)) ELSE c

\* mutant: the scan index stays
next_index_stuck(i) == i

\* init_cycle, line 171: `i += 1`
next_index(i) == i + 1

\* one turn of init_cycle's while loop, lines 151-173
init_cycle_step ==
  /\ pc = "cycle"
  /\ loop.i < Len(uninitialized)
  /\ LET i == loop.i
         new_init == uninitialized[i + 1]
         r == CallInit(new_init, initialized)
     IN IF DepsReady(new_init, initialized)
        THEN CASE r.r = "Some" ->
                    /\ uninitialized' = swap_remove(uninitialized, i)
                    /\ initialized' = MapInsert(r.h, TypeIdOf(new_init), r.value)
                    /\ loop' = [loop EXCEPT !.initialized_count = @ + 1]
                    /\ cache' = cache_push(cache, i)
                    /\ hist' = [hist EXCEPT !.built = Append(@, Built(new_init, "sweep", initialized))]
                    /\ UNCHANGED <<pc, panic>>
               [] r.r = "None" ->
                    \* the descriptor taken out by swap_remove is not put back
                    /\ uninitialized' = swap_remove(uninitialized, i)
                    /\ UNCHANGED <<initialized, loop, cache, hist, pc, panic>>
               [] OTHER ->
                    /\ pc' = "panic"
                    /\ panic' = [kind |-> "BorrowMutError", names |-> <<>>]
                    /\ UNCHANGED <<uninitialized, initialized, loop, cache, hist>>
        ELSE /\ loop' = [loop EXCEPT !.i = next_index(@)]
             /\ UNCHANGED <<uninitialized, initialized, cache, hist, pc, panic>>
  /\ UNCHANGED <<prog, split, cache_was_correct, ret>>

\* mutant: `cache_was_correct = false` of lines 122-125 is missing
init_cycle_end_flag_kept ==
  /\ pc = "cycle"
  /\ loop.i >= Len(uninitialized)
  /\ cache_was_correct' = cache_was_correct
  /\ IF loop.initialized_count > 0
     THEN /\ loop' = StartCycle(FALSE)
          /\ UNCHANGED <<pc, panic>>
     ELSE IF uninitialized # <<>>
     THEN /\ pc' = "panic"
          /\ panic' = [kind |-> "UnresolvedDependencies", names |-> get_type_names(uninitialized)]
          /\ UNCHANGED loop
     ELSE /\ pc' = "done"
          /\ UNCHANGED <<loop, panic>>
  /\ hist' = IF pc' = "done" THEN [hist EXCEPT !.result = Some(initialized), !.sweeps = @ + 1]
             ELSE [hist EXCEPT !.sweeps = @ + 1]
  /\ UNCHANGED <<prog, split, uninitialized, initialized, cache, ret>>

\* init_cycle returns initialized_count; init, lines 121-146: loop while a cycle
\* initialized something, then panic or build the InitializedTree
init_cycle_end ==
  /\ pc = "cycle"
  /\ loop.i >= Len(uninitialized)
  /\ cache_was_correct' = IF loop.first /\ loop.initialized_count > 0 THEN FALSE
                          ELSE cache_was_correct
  /\ IF loop.initialized_count > 0
     THEN /\ loop' = StartCycle(FALSE)
          /\ UNCHANGED <<pc, panic>>
     ELSE IF uninitialized # <<>>
     THEN /\ pc' = "panic"
          /\ panic' = [kind |-> "UnresolvedDependencies", names |-> get_type_names(uninitialized)]
          /\ UNCHANGED loop
     ELSE /\ pc' = "done"
          /\ UNCHANGED <<loop, panic>>
  /\ hist' = IF pc' = "done" THEN [hist EXCEPT !.result = Some(initialized), !.sweeps = @ + 1]
             ELSE [hist EXCEPT !.sweeps = @ + 1]
  /\ UNCHANGED <<prog, split, uninitialized, initialized, cache, ret>>

\* ------------------------------------------------------ InitializedTree
\* mutant: HashMap::get (and clone) where HashMap::remove is meant
tree_get(T) ==
  /\ ret' = IF T \in DOMAIN initialized THEN Some(initialized[T]) ELSE None
  /\ initialized' = initialized

\* HashMap::remove
tree_remove(T) ==
  /\ ret' = IF T \in DOMAIN initialized THEN Some(initialized[T]) ELSE None
  /\ initialized' = MapRemove(initialized, T)

\* InitializedTree::take::<T>()
take(T) ==
  /\ pc = "done"
  /\ Len(hist.handed) < MaxTakes
  /\ tree_remove(T)
  /\ hist' = [hist EXCEPT !.handed = Append(@, [asked |-> {T}, got |-> IF ret' = None THEN {} ELSE {T}])]
  /\ UNCHANGED <<prog, split, pc, uninitialized, cache, cache_was_correct, loop, panic>>

\* InitializedTree::take_by_type_id
take_by_type_id(t) ==
  /\ pc = "done"
  /\ Len(hist.handed) < MaxTakes
  /\ tree_remove(t)
  /\ hist' = [hist EXCEPT !.handed = Append(@, [asked |-> {t}, got |-> IF ret' = None THEN {} ELSE {t}])]
  /\ UNCHANGED <<prog, split, pc, uninitialized, cache, cache_was_correct, loop, panic>>

\* InitializedTree::take_all
take_all ==
  /\ pc = "done"
  /\ ret' = Some(initialized)
  /\ initialized' = EmptyMap
  /\ pc' = "consumed"
  /\ hist' = [hist EXCEPT !.handed = Append(@, [asked |-> Types, got |-> DOMAIN ret'[1]])]
  /\ UNCHANGED <<prog, split, uninitialized, cache, cache_was_correct, loop, panic>>

\* InitializedTree::take_cache
take_cache ==
  /\ pc = "done"
  /\ ret' = cache
  /\ cache' = None
  /\ hist' = [hist EXCEPT !.taken = IF hist.taken = None THEN cache ELSE hist.taken]
  /\ UNCHANGED <<prog, split, pc, uninitialized, initialized, cache_was_correct, loop, panic>>

\* InitTree::new() once more, after a first tree was initialized: the program
\* remembers the first tree's result and the cache it took from it
new_tree ==
  /\ pc = "done"
  /\ hist.prev = None
  /\ hist.handed = <<>>
  /\ pc' = "tree"
  /\ uninitialized' = <<>>
  /\ cache' = None
  /\ initialized' = EmptyMap
  /\ cache_was_correct' = FALSE
  /\ loop' = NoLoop
  /\ ret' = None
  /\ hist' = [NoHist EXCEPT !.prev = Some([adds |-> hist.adds, pending |-> hist.pending,
                                           tree |-> hist.result[1], cache |-> hist.taken,
                                           cache_was_correct |-> cache_was_correct,
                                           loaded |-> hist.loaded, failed |-> hist.failed])]
  /\ UNCHANGED <<prog, split, panic>>

\* load_cache with the cache taken from the first tree
load_saved ==
  /\ hist.prev # None
  /\ hist.prev[1].cache # None
  /\ load_cache(hist.prev[1].cache[1], "saved")

\* InitializedTree::cache_was_correct
CacheWasCorrect == cache_was_correct

\* caches that were not captured from a run of this tree: deserialized, or
\* captured from some other graph
ForeignCaches == SeqsUpTo(0..NTypes, MaxCacheLen)
ShortCaches == SeqsUpTo(0..NTypes, MaxShortLen)
\* longer caches over few slots: a slot can be named again after it failed
RetryCaches == SeqsUpTo(0..MaxRetrySlot, MaxRetryLen)

\* ------------------------------------------------------- specifications
\* One tree over impl_init! and Default types, caching off or enabled with the
\* default cache, initialized and drained.
Init == \E p \in MacroPrograms, s \in BOOLEAN : NewTree(p, s)

Next ==
  \/ \E T \in Types : add(T)
  \/ \E e \in BOOLEAN : enable_caching(e)
  \/ init_begin
  \/ replay_end
  \/ init_cycle_step
  \/ init_cycle_end
  \/ \E T \in Types : take(T)
  \/ \E T \in Types : take_by_type_id(T)
  \/ take_all
  \/ take_cache

Spec == Init /\ [][Next]_vars

\* One tree over impl_init! and Default types with a foreign cache loaded.
NextReplay ==
  \/ \E T \in Types : add(T)
  \/ \E c \in ForeignCaches : hist.adds = <<>> /\ hist.loaded = "no" /\ load_cache(c, "foreign")
  \/ init_begin
  \/ replay_step
  \/ replay_end
  \/ init_cycle_step
  \/ init_cycle_end

SpecReplay == Init /\ [][NextReplay]_vars

\* Two trees over the same impl_init! and Default types, the second one with
\* the cache taken from the first, if one was taken.  (Caching is set up before
\* the first add: the calls commute with add.)
NextRerun ==
  \/ \E T \in Types : add(T)
  \/ \E e \in BOOLEAN : hist.adds = <<>> /\ hist.prev = None /\ enable_caching(e)
  \/ hist.adds = <<>> /\ hist.loaded = "no" /\ load_saved
  \/ init_begin
  \/ replay_step
  \/ replay_end
  \/ init_cycle_step
  \/ init_cycle_end
  \/ take_cache
  \/ new_tree

SpecRerun == Init /\ [][NextRerun]_vars

\* One tree, no caching, over programs with one hand written Init impl.
InitManual == \E p \in ManualPrograms, s \in BOOLEAN : NewTree(p, s)

NextManual ==
  \/ \E T \in Types : add(T)
  \/ init_begin
  \/ init_cycle_step
  \/ init_cycle_end

SpecManual == InitManual /\ [][NextManual]_vars

\* One tree over impl_init! and Default types, after any sequence of
\* enable_caching and load_cache calls (made before the first add: the calls
\* commute with add), initialized, its cache taken.
NextCaching ==
  \/ \E T \in Types : add(T)
  \/ \E e \in BOOLEAN : hist.adds = <<>> /\ enable_caching(e)
  \/ \E c \in ShortCaches : hist.adds = <<>> /\ load_cache(c, "foreign")
  \/ init_begin
  \/ replay_step
  \/ replay_end
  \/ init_cycle_step
  \/ init_cycle_end
  \/ take_cache

SpecCaching == Init /\ [][NextCaching]_vars

\* One tree over impl_init! and Default types with a cache loaded that can name
\* a slot several times.
NextRetry ==
  \/ \E T \in Types : add(T)
  \/ \E c \in RetryCaches : hist.adds = <<>> /\ hist.loaded = "no" /\ load_cache(c, "foreign")
  \/ init_begin
  \/ replay_step
  \/ replay_end
  \/ init_cycle_step
  \/ init_cycle_end

SpecRetry == Init /\ [][NextRetry]_vars

\* the next add of the second tree repeats the first tree's
SameAdd(T) ==
  /\ Len(hist.adds) < Len(hist.prev[1].adds)
  /\ T = hist.prev[1].adds[Len(hist.adds) + 1]

\* Two trees with the same adds: the first with the default cache or a foreign
\* cache loaded, the second with the cache taken from the first.
NextRecache ==
  \/ \E T \in Types : (hist.prev # None => SameAdd(T)) /\ add(T)
  \/ hist.adds = <<>> /\ hist.prev = None /\ hist.loaded = "no" /\ enable_caching(TRUE)
  \/ \E c \in ForeignCaches :
       hist.adds = <<>> /\ hist.prev = None /\ hist.loaded = "no" /\ load_cache(c, "foreign")
  \/ hist.adds = <<>> /\ hist.loaded = "no" /\ load_saved
  \/ init_begin
  \/ replay_step
  \/ replay_end
  \/ init_cycle_step
  \/ init_cycle_end
  \/ take_cache
  \/ new_tree

SpecRecache == Init /\ [][NextRecache]_vars

\* The collector called at a call depth near the ceiling, over impl_init! types
\* with and without arguments and Default types.
InitDepth == \E p \in DepthPrograms, s \in BOOLEAN : NewTree(p, s)

NextDepth == \E T \in Types, d \in Depths : collect(T, d)

SpecDepth == InitDepth /\ [][NextDepth]_vars

\* The same with init running to completion once it was called: init is
\* synchronous code of one thread, its next step is always taken.
InitSteps == replay_step \/ replay_end \/ init_cycle_step \/ init_cycle_end

SpecReplayLive == Init /\ [][NextReplay]_vars /\ WF_vars(InitSteps)

\* ----------------------------------------------------------------- claims
\* the dependency graph of the program
DirectDeps(T) == {prog[T].args[j] : j \in 1..Len(prog[T].args)}

RECURSIVE Closure(_, _)
Closure(S, n) ==
  IF n = 0 THEN S
  ELSE CHOOSE r \in {Closure(W \cup UNION {DirectDeps(T) : T \in W}, n - 1) : W \in {S}} : TRUE

\* the types of S and their transitive dependencies
Reach(S) == Closure(S, NTypes)
DependsOnItself(T) == T \in Reach(DirectDeps(T))
Acyclic(S) == \A T \in Reach(S) : ~DependsOnItself(T)
NamesTwice(T) == \E j, k \in 1..Len(prog[T].args) : j # k /\ prog[T].args[j] = prog[T].args[k]
Roots == {hist.adds[j] : j \in 1..Len(hist.adds)}
Constructed == {TypeIdOf(hist.built[j]) : j \in 1..Len(hist.built)}

\* init returned a tree holding every registered type and every transitive
\* dependency, and the first take of any of them returns an instance
ResolvedAll ==
  /\ pc # "panic"
  /\ (pc = "done" /\ hist.handed = <<>>) => Reach(Roots) \subseteq DOMAIN initialized
  /\ (pc = "done" /\ Len(hist.handed) = 1 /\ hist.handed[1].asked \subseteq Reach(Roots))
       => hist.handed[1].got = hist.handed[1].asked

\* C1 as claimed: for every acyclic dependency graph (every dependency of an
\* impl_init! type is registered by the collector) init completes without
\* failure, and take then returns an instance for every registered type and every
\* transitive dependency.
C1_Original == Acyclic(Roots) => ResolvedAll

\* C1 as amended: the same for every acyclic graph in which no type names the
\* same dependency twice in its argument list.
C1_Theorem ==
  (Acyclic(Roots) /\ \A T \in Reach(Roots) : ~NamesTwice(T)) => ResolvedAll

C1_Witness ==
  /\ pc = "done"
  /\ Len(hist.adds) = 2
  /\ Cardinality(Reach(Roots)) = 3
  /\ Len(hist.handed) = 1
  /\ hist.handed[1].got # {}
  /\ hist.handed[1].got \cap Roots = {}

\* C2: in every run of init, by cache replay and by the sweep alike, every direct
\* dependency of a type was constructed before the type itself is.
C2_Theorem ==
  \A j \in 1..Len(hist.built) :
    \A a \in DirectDeps(TypeIdOf(hist.built[j])) :
      \E k \in 1..(j - 1) : TypeIdOf(hist.built[k]) = a

C2_Witness ==
  /\ pc = "done"
  /\ \E j \in 1..Len(hist.built) :
       hist.built[j].via = "replay" /\ DirectDeps(TypeIdOf(hist.built[j])) # {}
  /\ \E j \in 1..Len(hist.built) :
       hist.built[j].via = "sweep" /\ DirectDeps(TypeIdOf(hist.built[j])) # {}

\* C3: adding a type that depends on itself, directly or through other types,
\* fails with DependencyTooDeep whatever was added before, and no tree is
\* initialized.
C3_Theorem ==
  (\E j \in 1..Len(hist.adds) : DependsOnItself(hist.adds[j]))
    => (pc = "panic" /\ panic.kind = "DependencyTooDeep")

C3_Witness ==
  /\ pc = "panic"
  /\ Len(hist.adds) = 2
  /\ ~DependsOnItself(hist.adds[1])
  /\ DependsOnItself(hist.adds[2])
  /\ hist.adds[2] \notin DirectDeps(hist.adds[2])

\* how many constructed dependents wrote to T's instance
Writers(T) == Cardinality({j \in 1..Len(hist.built) : T \in DirectDeps(TypeIdOf(hist.built[j]))})

\* C4: a type reached through several paths or registered several times is
\* constructed once per init: no two constructions of one TypeId, no insert over
\* an existing key, and the instance init returns carries the writes of all its
\* dependents.
C4_Claim ==
  /\ \A j, k \in 1..Len(hist.built) :
       j # k => TypeIdOf(hist.built[j]) # TypeIdOf(hist.built[k])
  /\ \A j \in 1..Len(hist.built) : hist.built[j].fresh
  /\ (pc = "done" /\ hist.handed = <<>>)
       => \A T \in DOMAIN initialized : initialized[T].n = Writers(T)

\* what is left in the tree before the j-th take
Avail(j) == Constructed \ UNION {hist.handed[k].got : k \in 1..(j - 1)}

\* C5: every take, take_by_type_id and take_all hands out exactly the asked
\* instances that are still in the tree, so none is handed out twice; a take of
\* an absent identity returns nothing; what stays in the tree is what init put
\* there.
C5_Theorem ==
  pc \in {"done", "consumed"} =>
    /\ \A j \in 1..Len(hist.handed) : hist.handed[j].got = hist.handed[j].asked \cap Avail(j)
    /\ DOMAIN initialized = Avail(Len(hist.handed) + 1)
    /\ \A T \in DOMAIN initialized : initialized[T] = hist.result[1][T]
    /\ \A T \in Types : Cardinality({j \in 1..Len(hist.handed) : T \in hist.handed[j].got}) <= 1

C5_Witness ==
  /\ pc = "consumed"
  /\ Len(hist.handed) = 3
  /\ hist.handed[1].got # {}
  /\ hist.handed[2].asked = hist.handed[1].asked
  /\ hist.handed[2].got = {}
  /\ hist.handed[3].got # {}
  /\ hist.handed[3].got \cap hist.handed[1].got = {}

\* the second tree, once its init has begun
SecondInit == hist.prev # None /\ pc # "tree"
Count(q, T) == Cardinality({j \in 1..Len(q) : q[j] = T})
IsPermutation(q, r) == Len(q) = Len(r) /\ \A T \in Types : Count(q, T) = Count(r, T)
Resolvable(S) == Acyclic(S) /\ \A T \in Reach(S) : ~NamesTwice(T)
RootsOf(q) == {q[j] : j \in 1..Len(q)}

\* C6: a graph is initialized with caching enabled, the cache is taken and
\* loaded into a second tree with the same adds: the second init succeeds,
\* cache_was_correct() is true, it returns a cache, and the instances are those
\* of the first run.
C6_Theorem ==
  (SecondInit /\ hist.loaded = "saved" /\ hist.adds = hist.prev[1].adds)
    => /\ pc # "panic"
       /\ pc = "done" => /\ CacheWasCorrect
                         /\ hist.result[1] = hist.prev[1].tree
                         /\ (hist.taken = None => cache # None)

C6_Witness ==
  /\ SecondInit
  /\ pc = "done"
  /\ hist.loaded = "saved"
  /\ hist.adds = hist.prev[1].adds
  /\ Len(hist.adds) = 2
  /\ Cardinality(DOMAIN hist.result[1]) = 3
  /\ \A j \in 1..Len(hist.built) : hist.built[j].via = "replay"
  /\ \E T \in DOMAIN hist.result[1] : hist.result[1][T].n = 2

\* C7: a cache captured from a resolvable graph G1 is loaded into a tree of a
\* resolvable graph G2 with other types than G1: init still succeeds, and
\* cache_was_correct() is false.
C7_Claim ==
  (/\ SecondInit
   /\ hist.loaded = "saved"
   /\ Resolvable(Roots)
   /\ Reach(Roots) # Reach(RootsOf(hist.prev[1].adds)))
    => /\ pc # "panic"
       /\ pc = "done" => ~CacheWasCorrect

\* the descriptors of the deduplicated pending set that were not constructed
NotConstructed == SelectSeq(hist.pending, LAMBDA d : TypeIdOf(d) \notin Constructed)

\* C8: init returns a tree only when every identity of the deduplicated pending
\* set was constructed; when the sweep stalls, it fails with
\* UnresolvedDependencies naming every descriptor that was not constructed.
C8_Claim ==
  /\ pc = "done" => \A j \in 1..Len(hist.pending) : TypeIdOf(hist.pending[j]) \in DOMAIN initialized
  /\ (pc = "panic" /\ panic.kind = "UnresolvedDependencies")
       => \A j \in 1..Len(NotConstructed) :
            \E k \in 1..Len(panic.names) : panic.names[k] = NotConstructed[j].name

\* C9: two trees with the same adds in two orders: both inits succeed, with the
\* same identities and the same instance contents.
C9_Theorem ==
  (SecondInit /\ IsPermutation(hist.adds, hist.prev[1].adds))
    => /\ pc # "panic"
       /\ pc = "done" => hist.result[1] = hist.prev[1].tree

C9_Witness ==
  /\ SecondInit
  /\ pc = "done"
  /\ IsPermutation(hist.adds, hist.prev[1].adds)
  /\ hist.adds # hist.prev[1].adds
  /\ Cardinality(DOMAIN hist.result[1]) = 3
  /\ \E T \in DOMAIN hist.result[1] : hist.result[1][T].n = 2

\* the first descriptor for identity T among those registered
FirstRegistered(T) ==
  hist.registered[CHOOSE i \in 1..Len(hist.registered) :
                    /\ TypeIdOf(hist.registered[i]) = T
                    /\ \A e \in 1..(i - 1) : TypeIdOf(hist.registered[e]) # T]
SameDef(b, d) == b.id = d.id /\ b.init = d.init /\ b.name = d.name

\* C10: of the descriptors registered with one Identity, deduplication keeps
\* the first in registration order, and the descriptor that add::<T>()
\* registered for T is the one that constructs T, winning over one generated
\* from a dependent's list.
C10_Claim ==
  /\ \A j \in 1..Len(hist.pending) :
       hist.pending[j] = FirstRegistered(TypeIdOf(hist.pending[j]))
  /\ \A j \in 1..Len(hist.built) :
       TypeIdOf(hist.built[j]) \in Roots
         => SameDef(hist.built[j], self_def(TypeIdOf(hist.built[j])))

\* a step that is an enable_caching or load_cache call: the only steps that
\* leave the tree a tree with the same adds
SetupStep == pc = "tree" /\ pc' = "tree" /\ hist'.adds = hist.adds /\ hist'.setup # None
\* a step that is a take_cache call
TakeCacheStep == pc = "done" /\ pc' = "done" /\ hist'.handed = hist.handed

\* C11: load_cache(c) returns the cache held before the call and leaves the tree
\* holding c; enable_caching(true) keeps a cache that is held and installs one
\* when none is; enable_caching(false) leaves no cache; an init that begins with
\* no cache reports cache_was_correct() false and take_cache returns nothing;
\* take_cache returns the cache of the run and leaves none, so that a second
\* take_cache returns nothing.
C11_Theorem ==
  /\ [][SetupStep =>
          LET s == hist'.setup[1] IN
          /\ s.op = "load_cache" => (ret' = cache /\ cache' = Some(s.c))
          /\ (s.op = "enable_caching" /\ s.enabled)
               => (cache' # None /\ (cache # None => cache' = cache))
          /\ (s.op = "enable_caching" /\ ~s.enabled) => cache' = None]_vars
  /\ [][TakeCacheStep => (ret' = cache /\ cache' = None)]_vars
  /\ [](pc = "done" /\ hist.loaded = "no"
          => (~CacheWasCorrect /\ cache = None /\ hist.taken = None))
  /\ [](pc = "done" /\ hist.taken # None => cache = None)

\* load_cache over a loaded cache: the call returned the cache loaded before
C11_Witness ==
  /\ pc = "tree"
  /\ hist.setup # None
  /\ hist.setup[1].op = "load_cache"
  /\ ret # None
  /\ ret # Some(<<>>)
  /\ ret # cache

\* a sweep step that attempted the descriptor in slot loop.i, whose
\* dependencies were all constructed, and constructed nothing
DeclinedStep ==
  /\ pc = "cycle"
  /\ pc' = "cycle"
  /\ loop.i < Len(uninitialized)
  /\ DepsReady(uninitialized[loop.i + 1], initialized)
  /\ loop' = loop
  /\ hist'.built = hist.built

\* C12: when the sweep attempts a descriptor whose direct dependencies are all
\* constructed and its init returns None, the descriptor is still pending after
\* the step and the map is unchanged; init returns a tree only when nothing is
\* pending.
C12_Claim ==
  /\ [][DeclinedStep =>
          /\ \E k \in 1..Len(uninitialized') : uninitialized'[k] = uninitialized[loop.i + 1]
          /\ initialized' = initialized]_vars
  /\ [](pc = "done" => uninitialized = <<>>)

\* the replay loop is running and one of its turns constructed nothing: it made
\* loop.k - 1 turns and pushed fewer slots to new_cache
ReplayFailed == pc = "replay" /\ loop.k - 1 > Len(loop.new_cache)

\* C13: once a replay step has failed to construct the descriptor at its cached
\* slot, no later cached step is attempted: the next step of init leaves the
\* replay loop for the sweep.
C13_Claim == [][ReplayFailed => pc' = "cycle"]_vars

\* C14: when at least one step of the replay loop failed to construct the
\* descriptor at its cached slot and init returns a tree, cache_was_correct()
\* is false.
C14_Claim == (pc = "done" /\ hist.failed > 0) => ~CacheWasCorrect

\* C15: an init that begins with the default cache of enable_caching(true),
\* nothing loaded, over at least one added type returns a tree that reports
\* cache_was_correct() false and whose take_cache returns a cache; and
\* cache_was_correct() is false whenever the sweep constructed an instance.
C15_Theorem ==
  /\ (pc = "done" /\ hist.loaded = "default" /\ hist.adds # <<>>)
       => (~CacheWasCorrect /\ (hist.taken # None \/ cache # None))
  /\ (pc = "done" /\ \E j \in 1..Len(hist.built) : hist.built[j].via = "sweep")
       => ~CacheWasCorrect

\* a loaded cache whose replay constructed one instance and left the rest to
\* the sweep
C15_Witness ==
  /\ pc = "done"
  /\ hist.loaded = "foreign"
  /\ hist.taken # None
  /\ ~CacheWasCorrect
  /\ \E j \in 1..Len(hist.built) : hist.built[j].via = "replay"
  /\ \E j \in 1..Len(hist.built) : hist.built[j].via = "sweep"

\* C16: the cache taken from a tree that init returned, whatever cache that
\* init began with, is valid for the same adds: loaded into a second tree, every
\* replay step constructs, the sweep constructs nothing, and
\* cache_was_correct() is true.
C16_Theorem ==
  (SecondInit /\ hist.loaded = "saved" /\ hist.adds = hist.prev[1].adds)
    => /\ pc # "panic"
       /\ hist.failed = 0
       /\ \A j \in 1..Len(hist.built) : hist.built[j].via = "replay"
       /\ pc = "done" => (CacheWasCorrect /\ DOMAIN hist.result[1] = DOMAIN hist.prev[1].tree)

\* the first init replayed a loaded cache, one step of which failed
C16_Witness ==
  /\ SecondInit
  /\ pc = "done"
  /\ hist.loaded = "saved"
  /\ hist.adds = hist.prev[1].adds
  /\ hist.prev[1].loaded = "foreign"
  /\ hist.prev[1].failed > 0
  /\ ~hist.prev[1].cache_was_correct
  /\ Len(hist.built) >= 2

\* the deep_deps_list calls that a call for T at call depth d leads to, each
\* with its call depth (one more per dependency edge followed), up to the first
\* call at or above the ceiling on each chain
RECURSIVE Visits(_, _)
Visits(T, d) ==
  {<<T, d>>} \cup
    IF d < MAX_TREE_DEPTH /\ prog[T].kind # "default"
    THEN UNION {Visits(prog[T].args[j], d + 1) : j \in 1..Len(prog[T].args)}
    ELSE {}

AtCeiling(T, d) == {v \in Visits(T, d) : v[2] >= MAX_TREE_DEPTH}

\* C17 as claimed: collection fails exactly when a type that declares
\* dependencies is visited at call depth >= MAX_TREE_DEPTH.
C17_Original ==
  pc \in {"panic", "collected"} =>
    (pc = "panic" <=> \E v \in AtCeiling(ret[1][1], ret[1][2]) : prog[v[1]].args # <<>>)

\* C17 as amended: collection fails exactly when an impl_init! type, with or
\* without dependencies, is visited at call depth >= MAX_TREE_DEPTH; a Default
\* type visited there is accepted; when it does not fail it collects the types
\* visited below the root.
C17_Theorem ==
  pc \in {"panic", "collected"} =>
    /\ pc = "panic" <=> \E v \in AtCeiling(ret[1][1], ret[1][2]) : prog[v[1]].kind # "default"
    /\ pc = "panic" => panic.kind = "DependencyTooDeep"
    /\ pc = "collected" =>
         {TypeIdOf(uninitialized[j]) : j \in 1..Len(uninitialized)}
           = {v[1] : v \in Visits(ret[1][1], ret[1][2]) \ {ret[1]}}

\* an acyclic chain that ends in a Default leaf at the ceiling is accepted
C17_Witness ==
  /\ pc = "collected"
  /\ ret[1][2] = MAX_TREE_DEPTH - 2
  /\ Acyclic({ret[1][1]})
  /\ Len(uninitialized) = 2
  /\ \E v \in AtCeiling(ret[1][1], ret[1][2]) : prog[v[1]].kind = "default"

\* a turn of init_cycle's while loop, and the return of an init_cycle call that
\* is followed by another call
SweepTurn == pc = "cycle" /\ pc' = "cycle" /\ loop.i < Len(uninitialized)
SweepAgain == pc = "cycle" /\ pc' = "cycle" /\ loop.i >= Len(uninitialized)

\* C18: init terminates, by returning a tree or by a panic: every turn of a sweep
\* advances the scan index or shortens uninitialized; another sweep follows only
\* a sweep that constructed an instance, so that there are at most as many
\* sweeps as pending descriptors plus one; the replay loop makes one attempt per
\* cached entry.
C18_Theorem ==
  /\ (pc \in {"replay", "cycle"}) ~> (pc \in {"done", "panic"})
  /\ [][SweepTurn => (loop'.i = loop.i + 1 \/ Len(uninitialized') < Len(uninitialized))]_vars
  /\ [][SweepAgain => loop.initialized_count > 0]_vars
  /\ [](hist.sweeps <= Len(hist.pending) + 1)
  /\ [](pc = "replay" => hist.failed + Len(loop.new_cache) = loop.k - 1)
  /\ [][(pc = "replay" /\ pc' = "cycle") => loop.k = Len(cache[1]) + 1]_vars

\* a run of two replay attempts and three sweeps
C18_Witness ==
  /\ pc = "done"
  /\ hist.sweeps = 3
  /\ hist.failed = 1
  /\ \E j \in 1..Len(hist.built) : hist.built[j].via = "replay"

\* C19: between the calls of init functions no RefCell of the map is borrowed
\* (every handle a call took is returned when it ends); no instance was ever
\* constructed by a call that took two handles to one instance: such a call
\* panics, which ends init.
C19_Theorem ==
  /\ \A x \in DOMAIN initialized : ~initialized[x].borrowed
  /\ \A j \in 1..Len(hist.built) : ~NamesTwice(hist.built[j].init[1])
  /\ pc = "done" => \A T \in Reach(Roots) : ~NamesTwice(T)
  /\ (pc = "panic" /\ panic.kind = "BorrowMutError") => \E T \in Reach(Roots) : NamesTwice(T)

\* a type that names one dependency twice was attempted after its dependency
\* and another type were constructed
C19_Witness ==
  /\ pc = "panic"
  /\ panic.kind = "BorrowMutError"
  /\ Len(hist.built) = 2
  /\ \E j \in 1..Len(hist.built) : hist.built[j].via = "replay"
  /\ \E j \in 1..Len(hist.built) : DirectDeps(hist.built[j].init[1]) # {}

\* a turn of the replay loop that constructed nothing
FailedReplayStep == pc = "replay" /\ pc' = "replay" /\ hist'.failed = hist.failed + 1

\* C20: a replay step that fails to construct leaves uninitialized with the
\* same descriptors in the same slots, the map unchanged, and pushes nothing to
\* the rebuilt cache.
C20_Theorem ==
  [][FailedReplayStep =>
       /\ uninitialized' = uninitialized
       /\ initialized' = initialized
       /\ loop'.new_cache = loop.new_cache]_vars

\* two failed steps: the first at the last slot, the second at a slot before it
C20_Witness ==
  /\ pc = "replay"
  /\ hist.failed = 2
  /\ loop.k = 3
  /\ cache[1][1] = Len(uninitialized) - 1
  /\ cache[1][2] < Len(uninitialized) - 1

\* the failures init declares: the depth ceiling of the collector, the
\* unresolved dependencies of a stalled sweep, the borrow conflict
DeclaredFailures == {"DependencyTooDeep", "UnresolvedDependencies", "BorrowMutError"}

\* C21: for every loaded cache and every added graph the replay loop never
\* indexes a slot outside uninitialized: init ends by returning a tree or with
\* one of the declared failures, never with an out of range slot access.
C21_Claim == pc = "panic" => panic.kind \in DeclaredFailures

==========================================================================
